---------------------------- MODULE Spec2Model ----------------------------
(***************************************************************************)
(* A model of vscode-test-adapter-remoting-util: the retrying Connector    *)
(* (createConnection), the one-shot Acceptor (receiveConnection), the      *)
(* newline-delimited JSON codec (writeMessage / readMessages), the         *)
(* bridging proxy (createWorkerProxy), runWorker and the path converters   *)
(* (localPathConverter / remotePathConverter).                             *)
(*                                                                         *)
(* Node's event loop runs one callback at a time and drains the microtask  *)
(* queue before the next callback, so every action below is one callback   *)
(* together with the promise continuations it releases.                    *)
(*                                                                         *)
(* The components share no state; each has a specification of its own over *)
(* its own variables, the others' staying at their initial values.         *)
(***************************************************************************)
EXTENDS Integers, Sequences, FiniteSets, TLC

(***************************************************************************)
(* Bounds of the model.                                                    *)
(***************************************************************************)
MaxClients == 3
MaxTimeout == 3
MaxRetryInterval == 2
MaxGrace == 1
MaxLines == 3
MaxLocalPeers == 2
MaxProxyLines == 1
MaxRemoteData == 1
MaxDispose == 2
MaxChildEvents == 6
MaxMappings == 2
MaxPathLen == 2

Clients == 1..MaxClients
LocalPeers == 1..MaxLocalPeers

\* The clock of the model counts up to MaxTime, past every deadline a call
\* can set; Never is a time the clock does not reach.
MaxTime == MaxTimeout + MaxRetryInterval + 1
Never == MaxTime + MaxGrace + 1

VARIABLES
    \* ---- receiveConnection (src/src/ipc.ts 111-176) ----
    rcPhase,        \* position of the async executor of receiveConnection
    rcTimeout,      \* the `timeout` option of the call
    rcLog,          \* whether a logger was passed
    rcLogged,       \* the messages given to the logger
    rcPromise,      \* the promise returned by receiveConnection
    timeoutHandle,  \* the timer set at line 169
    srvState,       \* the net.Server created by createServerAndListen
    srvConnListener,\* whether onConnection is attached to 'connection'
    onConnCalls,    \* the sockets onConnection was called with, in order
    client,         \* the peers that may connect to the listening port
    rcUncaught,     \* exceptions and rejections nobody handles
    \* ---- createConnection (src/src/ipc.ts 24-103, 229-257) ----
    ccPhase,        \* "idle", "attempt" (awaiting fn()), "sleep" (awaiting
                    \* delay(retryInterval)) or "done"
    ccTimeout,      \* the `timeout` option
    retryInterval,  \* the `retryInterval` option
    rejectClosedSocket, \* the `rejectClosedSocket` option
    ccLog,          \* whether a logger was passed
    ccLogged,       \* the messages given to the logger
    ccPromise,      \* the promise returned by createConnection
    now,            \* Date.now(), counted from the call
    endTime,        \* retry's endTime
    delayDue,       \* when the pending delay() is due
    sockState,      \* the socket of the attempt under way
    sockDestroyed,  \* socket.destroyed
    sockListeners,  \* which of onConnect / onError are still attached
    tListen,        \* the time from which the target accepts connections
    keepsOpen,      \* whether the target keeps accepted connections open
    nAttempts,      \* net.createConnection calls so far
    attemptStart,   \* when the socket under way was created
    lastErr,        \* the error the last failed attempt rejected with
    lastErrTime,    \* when it was caught
    closedInGrace,  \* the socket under way was closed during its grace window
    ccSettledAt,    \* when ccPromise settled
    ccUncaught,     \* 'error' events emitted with no listener attached
    \* ---- writeMessage / readMessages (src/src/ipc.ts 178-195) ----
    lines,          \* what was written to the socket, line by line
    wire,           \* the characters written and not yet arrived
    soFar,          \* split(): the end of the last chunk, not yet a line
    handled,        \* the values the handler was called with, in order
    cdFailures,     \* the exceptions of JSON.parse and where they went
    cdEnded,        \* the socket has ended
    \* ---- createWorkerProxy (src/unnamed/part_000 4-53) ----
    pxPhase,        \* position of createWorkerProxy
    pxPromise,      \* the promise it returned
    remoteState,    \* the connection attempt of createClientConnection
    remoteSocket,   \* remoteSocket: who has ended it
    proxy,          \* the net.Server `proxy`
    localSocket,    \* the variable localSocket: 0 (undefined) or the peer
    localSock,      \* the accepted local socket: who has ended it
    pxConnCalls,    \* the peers the 'connection' listener was called with
    pxClient,       \* the local peers that may connect to localPort
    pxSent,         \* the messages the worker has written
    pxWire,         \* their characters not yet arrived
    pxLast,         \* split2(): the end of the last chunk, not yet a line
    pxParsed,       \* the messages the 'data' listener has parsed
    remoteOut,      \* the characters written to the remote socket
    pxUncaught,     \* exceptions thrown out of listeners, unhandled errors
    remoteIn,       \* chunks received on the remote socket, read by nobody
    localOut,       \* what the bridge has written to the local socket
    nDispose,       \* calls of dispose() so far
    lateWrites,     \* data of the remoteSocket.write calls made after the
                    \* bridge called remoteSocket.end()
    \* ---- runWorker (src/unnamed/part_000 99-124) ----
    rwPhase,        \* "idle" or "running" (the child process was forked)
    finished,       \* the variable `finished`
    rwPromise,      \* the promise returned by runWorker
    childEvents,    \* the 'exit' and 'error' events of the child, in order
    rwResolveCalls, \* calls of resolve() so far
    rwResolvedAt,   \* the number of the event at which resolve() was called
    \* ---- localPathConverter / remotePathConverter (src/src/convert.ts) ----
    pcPhase,        \* "idle" or "called"
    pcConverter,    \* which of the two converters was called
    pcMappings,     \* the mappings it was made from
    pcPath,         \* the path it was called with
    pcResult        \* what it returned

rcVars == <<rcPhase, rcTimeout, rcLog, rcLogged, rcPromise, timeoutHandle,
            srvState, srvConnListener, onConnCalls, client, rcUncaught>>

ccVars == <<ccPhase, ccTimeout, retryInterval, rejectClosedSocket, ccLog,
            ccLogged, ccPromise, now, endTime, delayDue, sockState,
            sockDestroyed, sockListeners, tListen, keepsOpen, nAttempts,
            attemptStart, lastErr, lastErrTime, closedInGrace, ccSettledAt,
            ccUncaught>>

cdVars == <<lines, wire, soFar, handled, cdFailures, cdEnded>>

pxVars == <<pxPhase, pxPromise, remoteState, remoteSocket, proxy, localSocket,
            localSock, pxConnCalls, pxClient, pxSent, pxWire, pxLast, pxParsed,
            remoteOut, pxUncaught, remoteIn, localOut, nDispose, lateWrites>>

rwVars == <<rwPhase, finished, rwPromise, childEvents, rwResolveCalls,
            rwResolvedAt>>

pcVars == <<pcPhase, pcConverter, pcMappings, pcPath, pcResult>>

vars == <<rcVars, ccVars, cdVars, pxVars, rwVars, pcVars>>

\* what the steps of one component leave alone
notRc == <<ccVars, cdVars, pxVars, rwVars, pcVars>>
notCc == <<rcVars, cdVars, pxVars, rwVars, pcVars>>
notCd == <<rcVars, ccVars, pxVars, rwVars, pcVars>>
notPx == <<rcVars, ccVars, cdVars, rwVars, pcVars>>
notRw == <<rcVars, ccVars, cdVars, pxVars, pcVars>>
notPc == <<rcVars, ccVars, cdVars, pxVars, rwVars>>

Pending == [state |-> "pending", value |-> "none"]
Resolved(v) == [state |-> "resolved", value |-> v]
Rejected(e) == [state |-> "rejected", value |-> e]

\* resolve() and reject() of a promise act on a pending promise only
Settle(p, outcome) == IF p.state = "pending" THEN outcome ELSE p

\* `if (log) log.xxx(msg)`
LogTo(log, logged, msg) == IF log THEN logged \cup {msg} ELSE logged

(***************************************************************************)
(* receiveConnection                                                       *)
(***************************************************************************)
rcInit ==
    /\ rcPhase = "idle"
    /\ rcTimeout = 0
    /\ rcLog = FALSE
    /\ rcLogged = {}
    /\ rcPromise = Pending
    /\ timeoutHandle = "undefined"
    /\ srvState = "none"
    /\ srvConnListener = FALSE
    /\ onConnCalls = <<>>
    /\ client = [c \in Clients |-> "idle"]
    /\ rcUncaught = {}

\* receiveConnection(port, {timeout, log}): the executor runs up to the await
\* of createServerAndListen, which creates the server and calls listen().
receiveConnection(timeout, log) ==
    /\ rcPhase = "idle"
    /\ rcPhase' = "awaitListen"
    /\ rcTimeout' = timeout
    /\ rcLog' = log
    /\ timeoutHandle' = IF timeout > 0 THEN "armed" ELSE "undefined"
    /\ srvState' = "binding"
    /\ rcLogged' = LogTo(log, rcLogged, "IPC server created")
    /\ UNCHANGED <<rcPromise, srvConnListener, onConnCalls, client, rcUncaught>>
    /\ UNCHANGED notRc

\* The server emits 'listening': onListening resolves the promise of
\* createServerAndListen, the executor resumes, binds `server` and attaches
\* onConnection.
onListening ==
    /\ rcPhase = "awaitListen"
    /\ srvState = "binding"
    /\ srvState' = "listening"
    /\ rcPhase' = "attached"
    /\ srvConnListener' = TRUE
    /\ rcLogged' = LogTo(rcLog, rcLogged, "IPC server is listening")
    /\ UNCHANGED <<rcTimeout, rcLog, rcPromise, timeoutHandle, onConnCalls,
                   client, rcUncaught>>
    /\ UNCHANGED notRc

\* The server emits 'error' before 'listening': onError rejects the promise
\* of createServerAndListen.  The await at line 172 throws inside the async
\* executor, whose own promise nobody holds: neither resolve nor reject of
\* the promise returned by receiveConnection is called.
onListenError ==
    /\ rcPhase = "awaitListen"
    /\ srvState = "binding"
    /\ srvState' = "error"
    /\ rcPhase' = "executorThrew"
    /\ rcLogged' = LogTo(rcLog, rcLogged, "IPC server failed listening")
    /\ rcUncaught' = rcUncaught \cup {"unhandledRejection: listen error"}
    /\ UNCHANGED <<rcTimeout, rcLog, rcPromise, timeoutHandle,
                   srvConnListener, onConnCalls, client>>
    /\ UNCHANGED notRc

\* onConnection as it would be without the server.close() of line 148
onConnection_keepsListening(c) ==
    /\ rcLogged' = LogTo(rcLog, rcLogged, "IPC server received client connection")
    /\ UNCHANGED srvState
    /\ timeoutHandle' = IF timeoutHandle = "armed" THEN "cleared" ELSE timeoutHandle
    /\ rcPromise' = Settle(rcPromise, Resolved(c))
    /\ onConnCalls' = Append(onConnCalls, c)
    /\ client' = [client EXCEPT ![c] = "accepted"]
    /\ UNCHANGED <<rcPhase, rcTimeout, rcLog, srvConnListener, rcUncaught>>
    /\ UNCHANGED notRc

\* onConnection(socket), lines 135-155
onConnection(c) ==
    /\ rcLogged' = LogTo(rcLog, rcLogged, "IPC server received client connection")
    /\ srvState' = "closed"
    /\ timeoutHandle' = IF timeoutHandle = "armed" THEN "cleared" ELSE timeoutHandle
    /\ rcPromise' = Settle(rcPromise, Resolved(c))
    /\ onConnCalls' = Append(onConnCalls, c)
    /\ client' = [client EXCEPT ![c] = "accepted"]
    /\ UNCHANGED <<rcPhase, rcTimeout, rcLog, srvConnListener, rcUncaught>>
    /\ UNCHANGED notRc

\* onTimeout(), lines 157-165.  Before the await at line 172 has returned,
\* `server` is not bound yet and line 161 throws out of the timer callback:
\* reject is not reached.
onTimeout ==
    /\ timeoutHandle = "armed"
    /\ timeoutHandle' = "fired"
    /\ rcLogged' = LogTo(rcLog, rcLogged, "IPC server timed out")
    /\ IF rcPhase = "attached"
       THEN /\ srvConnListener' = FALSE
            /\ srvState' = "closed"
            /\ rcPromise' = Settle(rcPromise, Rejected("timeout"))
            /\ UNCHANGED rcUncaught
       ELSE /\ rcUncaught' = rcUncaught \cup {"uncaughtException: server is not bound"}
            /\ UNCHANGED <<srvConnListener, srvState, rcPromise>>
    /\ UNCHANGED <<rcPhase, rcTimeout, rcLog, onConnCalls, client>>
    /\ UNCHANGED notRc

\* A peer starts connecting to the port.
ClientConnect(c) ==
    /\ rcPhase # "idle"
    /\ client[c] = "idle"
    /\ client' = [client EXCEPT ![c] = "connecting"]
    /\ UNCHANGED <<rcPhase, rcTimeout, rcLog, rcLogged, rcPromise, timeoutHandle,
                   srvState, srvConnListener, onConnCalls, rcUncaught>>
    /\ UNCHANGED notRc

\* A listening server accepts the peer and emits 'connection'.
ServerAccept(c) ==
    /\ client[c] = "connecting"
    /\ srvState = "listening"
    /\ IF srvConnListener
       THEN onConnection(c)
       ELSE /\ client' = [client EXCEPT ![c] = "unclaimed"]
            /\ UNCHANGED <<rcPhase, rcTimeout, rcLog, rcLogged, rcPromise,
                           timeoutHandle, srvState, srvConnListener, onConnCalls,
                           rcUncaught>>
            /\ UNCHANGED notRc

\* Nothing listens on the port (not yet, or not any more): refused.
ClientRefused(c) ==
    /\ client[c] = "connecting"
    /\ srvState # "listening"
    /\ client' = [client EXCEPT ![c] = "refused"]
    /\ UNCHANGED <<rcPhase, rcTimeout, rcLog, rcLogged, rcPromise, timeoutHandle,
                   srvState, srvConnListener, onConnCalls, rcUncaught>>
    /\ UNCHANGED notRc

\* The peer ends an accepted connection: the 'end' listener of lines 141-143.
ClientEnd(c) ==
    /\ client[c] = "accepted"
    /\ client' = [client EXCEPT ![c] = "endedByPeer"]
    /\ rcLogged' = LogTo(rcLog, rcLogged, "IPC server received disconnect from client")
    /\ UNCHANGED <<rcPhase, rcTimeout, rcLog, rcPromise, timeoutHandle,
                   srvState, srvConnListener, onConnCalls, rcUncaught>>
    /\ UNCHANGED notRc

rcNext ==
    \/ \E t \in 0..MaxTimeout, l \in BOOLEAN : receiveConnection(t, l)
    \/ onListening
    \/ onListenError
    \/ onTimeout
    \/ \E c \in Clients : ClientConnect(c)
    \/ \E c \in Clients : ServerAccept(c)
    \/ \E c \in Clients : ClientRefused(c)
    \/ \E c \in Clients : ClientEnd(c)

(***************************************************************************)
(* Claims about receiveConnection                                          *)
(***************************************************************************)

\* C1: receiveConnection hands over at most one connection (onConnection
\* runs at most once); once the promise has settled, with a connection or
\* with the timeout, the server is closed, and a closed server stays closed;
\* the connection handed over is left open by the Acceptor (only its peer
\* ends it).
C1_AcceptorOneShot ==
    /\ [](Len(onConnCalls) <= 1)
    /\ [](rcPromise.state # "pending" => srvState = "closed")
    /\ [][srvState = "closed" => srvState' = "closed"]_vars
    /\ [](rcPromise.state = "resolved" =>
            /\ onConnCalls = <<rcPromise.value>>
            /\ client[rcPromise.value] \in {"accepted", "endedByPeer"})

\* a connection was handed over, the server was closed and a later peer
\* found the port closed
C1_Witness ==
    /\ rcPromise.state = "resolved"
    /\ srvState = "closed"
    /\ client[rcPromise.value] = "accepted"
    /\ \E c \in Clients : client[c] = "refused"

\* No peer has tried to connect, the timer has fired and the server has
\* started to listen without an error: nothing of the call is left to happen.
rcTimedOutAlone ==
    /\ rcTimeout > 0
    /\ timeoutHandle = "fired"
    /\ srvState \notin {"binding", "error"}
    /\ \A c \in Clients : client[c] = "idle"

\* C2: with timeout > 0 and no client connecting, however the timer
\* interleaves with the listener setup, the promise ends rejected with the
\* timeout error and no server is left listening.
C2_TimeoutRejects ==
    rcTimedOutAlone => /\ rcPromise = Rejected("timeout")
                       /\ srvState # "listening"

\* C3: when the server fails to listen, the promise of receiveConnection is
\* rejected with the listen error at once, for every timeout.
C3_ListenErrorRejects ==
    srvState = "error" => rcPromise = Rejected("listen error")

(***************************************************************************)
(* createConnection                                                        *)
(*                                                                         *)
(* The target refuses connections before tListen and accepts them from     *)
(* tListen on; its answer takes time to arrive, so the clock may advance   *)
(* between the target answering and onConnect / onError running.  A timer  *)
(* runs its callback at its due time or later.                             *)
(***************************************************************************)
ccInit ==
    /\ ccPhase = "idle"
    /\ ccTimeout = 0
    /\ retryInterval = 1
    /\ rejectClosedSocket = 0
    /\ ccLog = FALSE
    /\ ccLogged = {}
    /\ ccPromise = Pending
    /\ now = 0
    /\ endTime = 0
    /\ delayDue = 0
    /\ sockState = "none"
    /\ sockDestroyed = FALSE
    /\ sockListeners = {}
    /\ tListen = 0
    /\ keepsOpen = TRUE
    /\ nAttempts = 0
    /\ attemptStart = 0
    /\ lastErr = "none"
    /\ lastErrTime = 0
    /\ closedInGrace = FALSE
    /\ ccSettledAt = 0
    /\ ccUncaught = {}

\* The executor of the bare attempt, lines 97-100: a new socket with onConnect
\* and onError attached once.
bareAttempt ==
    /\ sockState' = "connecting"
    /\ sockDestroyed' = FALSE
    /\ sockListeners' = {"connect", "error"}
    /\ nAttempts' = nAttempts + 1
    /\ attemptStart' = now
    /\ closedInGrace' = FALSE

\* createConnection(port, opts): with timeout > 0, retry() sets endTime and
\* calls fn(), the bare attempt; with timeout = 0 it is the bare attempt.
createConnection(timeout, interval, grace, log, tl, ko) ==
    /\ ccPhase = "idle"
    /\ ccPhase' = "attempt"
    /\ ccTimeout' = timeout
    /\ retryInterval' = interval
    /\ rejectClosedSocket' = grace
    /\ ccLog' = log
    /\ tListen' = tl
    /\ keepsOpen' = ko
    /\ endTime' = IF timeout > 0 THEN now + timeout ELSE endTime
    /\ bareAttempt
    /\ UNCHANGED <<ccLogged, ccPromise, now, delayDue, lastErr, lastErrTime,
                   ccSettledAt, ccUncaught>>
    /\ UNCHANGED notCc

\* The clock advances.  It stops at MaxTime unless a delay is still to come
\* due.
Tick ==
    /\ ccPhase \in {"attempt", "sleep"}
    /\ \/ now < MaxTime
       \/ (sockState = "grace" \/ ccPhase = "sleep") /\ now < delayDue
    /\ now' = now + 1
    /\ UNCHANGED <<ccPhase, ccTimeout, retryInterval, rejectClosedSocket, ccLog,
                   ccLogged, ccPromise, endTime, delayDue, sockState,
                   sockDestroyed, sockListeners, tListen, keepsOpen, nAttempts,
                   attemptStart, lastErr, lastErrTime, closedInGrace,
                   ccSettledAt, ccUncaught>>
    /\ UNCHANGED notCc

\* The target is not listening yet: it refuses the connection.
TargetRefuses ==
    /\ sockState = "connecting"
    /\ now < tListen
    /\ sockState' = "refused"
    /\ sockDestroyed' = TRUE
    /\ UNCHANGED <<ccPhase, ccTimeout, retryInterval, rejectClosedSocket, ccLog,
                   ccLogged, ccPromise, now, endTime, delayDue, sockListeners,
                   tListen, keepsOpen, nAttempts, attemptStart, lastErr,
                   lastErrTime, closedInGrace, ccSettledAt, ccUncaught>>
    /\ UNCHANGED notCc

\* The target is listening: it accepts the connection.
TargetAccepts ==
    /\ sockState = "connecting"
    /\ now >= tListen
    /\ sockState' = "connected"
    /\ UNCHANGED <<ccPhase, ccTimeout, retryInterval, rejectClosedSocket, ccLog,
                   ccLogged, ccPromise, now, endTime, delayDue, sockDestroyed,
                   sockListeners, tListen, keepsOpen, nAttempts, attemptStart,
                   lastErr, lastErrTime, closedInGrace, ccSettledAt, ccUncaught>>
    /\ UNCHANGED notCc

\* resolve(socket) of the bare attempt; in retry mode `return await fn()`
\* resolves the promise of retry with it.
bareResolve ==
    /\ sockState' = "returned"
    /\ ccPromise' = Settle(ccPromise, Resolved("socket"))
    /\ ccPhase' = "done"
    /\ ccSettledAt' = now
    /\ UNCHANGED <<delayDue, lastErr, lastErrTime>>

\* the catch block of retry as it would be without the test of the deadline
retryCatch_givesUpAtOnce(err) ==
    /\ ccPromise' = Settle(ccPromise, Rejected(err))
    /\ ccPhase' = "done"
    /\ ccSettledAt' = now
    /\ UNCHANGED delayDue

\* the catch block of retry as it would be if a socket found closed ended
\* the retries
retryCatch_closedIsFatal(err) ==
    IF now >= endTime \/ err = "closed immediately"
    THEN /\ ccPromise' = Settle(ccPromise, Rejected(err))
         /\ ccPhase' = "done"
         /\ ccSettledAt' = now
         /\ UNCHANGED delayDue
    ELSE /\ ccPhase' = "sleep"
         /\ delayDue' = now + retryInterval
         /\ UNCHANGED <<ccPromise, ccSettledAt>>

\* The catch block of retry, lines 238-251.
retryCatch(err) ==
    IF now >= endTime
    THEN /\ ccPromise' = Settle(ccPromise, Rejected(err))
         /\ ccPhase' = "done"
         /\ ccSettledAt' = now
         /\ UNCHANGED delayDue
    ELSE /\ ccPhase' = "sleep"
         /\ delayDue' = now + retryInterval
         /\ UNCHANGED <<ccPromise, ccSettledAt>>

\* reject(err) of the bare attempt: with timeout = 0 it rejects the promise of
\* createConnection, with timeout > 0 it is caught by retry.
bareReject(err) ==
    /\ sockState' = "failed"
    /\ lastErr' = err
    /\ lastErrTime' = now
    /\ IF ccTimeout > 0
       THEN retryCatch(err)
       ELSE /\ ccPromise' = Settle(ccPromise, Rejected(err))
            /\ ccPhase' = "done"
            /\ ccSettledAt' = now
            /\ UNCHANGED delayDue

\* onError(err), lines 88-95
onError ==
    /\ sockState = "refused"
    /\ "error" \in sockListeners
    /\ ccLogged' = LogTo(ccLog, ccLogged, "IPC client failed to connect to server")
    /\ sockListeners' = {}
    /\ bareReject("refused")
    /\ UNCHANGED <<ccTimeout, retryInterval, rejectClosedSocket, ccLog, now,
                   endTime, sockDestroyed, tListen, keepsOpen, nAttempts,
                   attemptStart, closedInGrace, ccUncaught>>
    /\ UNCHANGED notCc

\* onConnect() without line 72: onError stays attached
onConnect_keepsErrorListener ==
    /\ sockState = "connected"
    /\ "connect" \in sockListeners
    /\ ccLogged' = LogTo(ccLog, ccLogged, "IPC client connected to server")
    /\ sockListeners' = sockListeners \ {"connect"}
    /\ IF rejectClosedSocket > 0
       THEN /\ sockState' = "grace"
            /\ delayDue' = now + rejectClosedSocket
            /\ UNCHANGED <<ccPromise, ccPhase, ccSettledAt, lastErr, lastErrTime>>
       ELSE bareResolve
    /\ UNCHANGED <<ccTimeout, retryInterval, rejectClosedSocket, ccLog, now,
                   endTime, sockDestroyed, tListen, keepsOpen, nAttempts,
                   attemptStart, closedInGrace, ccUncaught>>
    /\ UNCHANGED notCc

\* onConnect() up to its await, lines 68-76, or to its end when
\* rejectClosedSocket is 0.
onConnect ==
    /\ sockState = "connected"
    /\ "connect" \in sockListeners
    /\ ccLogged' = LogTo(ccLog, ccLogged, "IPC client connected to server")
    /\ sockListeners' = {}
    /\ IF rejectClosedSocket > 0
       THEN /\ sockState' = "grace"
            /\ delayDue' = now + rejectClosedSocket
            /\ UNCHANGED <<ccPromise, ccPhase, ccSettledAt, lastErr, lastErrTime>>
       ELSE bareResolve
    /\ UNCHANGED <<ccTimeout, retryInterval, rejectClosedSocket, ccLog, now,
                   endTime, sockDestroyed, tListen, keepsOpen, nAttempts,
                   attemptStart, closedInGrace, ccUncaught>>
    /\ UNCHANGED notCc

\* onConnect() after the await as it would be without the test of
\* socket.destroyed
afterGrace_noCheck ==
    /\ sockState = "grace"
    /\ now >= delayDue
    /\ bareResolve
    /\ UNCHANGED <<ccTimeout, retryInterval, rejectClosedSocket, ccLog, ccLogged,
                   now, endTime, sockDestroyed, sockListeners, tListen, keepsOpen,
                   nAttempts, attemptStart, closedInGrace, ccUncaught>>
    /\ UNCHANGED notCc

\* onConnect() after `await delay(rejectClosedSocket)`, lines 78-85
afterGrace ==
    /\ sockState = "grace"
    /\ now >= delayDue
    /\ IF sockDestroyed
       THEN /\ ccLogged' = LogTo(ccLog, ccLogged, "IPC client socket was closed immediately")
            /\ bareReject("closed immediately")
       ELSE /\ bareResolve
            /\ UNCHANGED ccLogged
    /\ UNCHANGED <<ccTimeout, retryInterval, rejectClosedSocket, ccLog, now,
                   endTime, sockDestroyed, sockListeners, tListen, keepsOpen,
                   nAttempts, attemptStart, closedInGrace, ccUncaught>>
    /\ UNCHANGED notCc

\* retry() after `await delay(retryInterval)`: the next turn of the loop calls
\* fn() again.  retry is called without a logger: 'Retrying...' is not logged.
retryAgain ==
    /\ ccPhase = "sleep"
    /\ now >= delayDue
    /\ ccPhase' = "attempt"
    /\ bareAttempt
    /\ UNCHANGED <<ccTimeout, retryInterval, rejectClosedSocket, ccLog, ccLogged,
                   ccPromise, now, endTime, delayDue, tListen, keepsOpen, lastErr,
                   lastErrTime, ccSettledAt, ccUncaught>>
    /\ UNCHANGED notCc

\* A target that does not keep its connections open closes or resets an
\* established one.  The socket is destroyed; a reset makes it emit 'error',
\* which is thrown when no listener is attached.
PeerCloses(reset) ==
    /\ ~keepsOpen
    /\ sockState \in {"grace", "returned"}
    /\ ~sockDestroyed
    /\ sockDestroyed' = TRUE
    /\ closedInGrace' = (closedInGrace \/ sockState = "grace")
    /\ ccUncaught' = IF reset /\ sockState = "grace" /\ "error" \notin sockListeners
                     THEN ccUncaught \cup {"unhandled 'error' event"}
                     ELSE ccUncaught
    /\ UNCHANGED <<ccPhase, ccTimeout, retryInterval, rejectClosedSocket, ccLog,
                   ccLogged, ccPromise, now, endTime, delayDue, sockState,
                   sockListeners, tListen, keepsOpen, nAttempts, attemptStart,
                   lastErr, lastErrTime, ccSettledAt>>
    /\ UNCHANGED notCc

\* the steps of the program itself, which the event loop does not put off
\* for ever
ccProgress ==
    \/ Tick
    \/ TargetRefuses
    \/ TargetAccepts
    \/ onError
    \/ onConnect
    \/ afterGrace
    \/ retryAgain

ccNext ==
    \/ \E timeout \in 0..MaxTimeout, interval \in 1..MaxRetryInterval,
          grace \in 0..MaxGrace, log \in BOOLEAN,
          tl \in (0..MaxTimeout) \cup {Never}, ko \in BOOLEAN :
            createConnection(timeout, interval, grace, log, tl, ko)
    \/ Tick
    \/ TargetRefuses
    \/ TargetAccepts
    \/ onError
    \/ onConnect
    \/ afterGrace
    \/ retryAgain
    \/ \E reset \in BOOLEAN : PeerCloses(reset)


(***************************************************************************)
(* The message codec: writeMessage and readMessages                        *)
(*                                                                         *)
(* A text is a sequence of characters, each written as a short string:     *)
(* "QT" the double quote, "BS" the backslash, "NL" the line feed, "CR" the *)
(* carriage return, the others themselves.  A JSON value is a record       *)
(* [t, s, a]: t its type ("null", "str", "arr"), s the characters of a     *)
(* string, a the elements of an array.                                     *)
(***************************************************************************)
Null == [t |-> "null", s |-> <<>>, a |-> <<>>]
Str(s) == [t |-> "str", s |-> s, a |-> <<>>]
Arr(a) == [t |-> "arr", s |-> <<>>, a |-> a]

\* the messages the model writes
SampleValues ==
    { Null,
      Str(<<>>),
      Str(<<"NL", "n">>),
      Str(<<"BS", "n", "QT">>),
      Arr(<<Str(<<"CR">>), Arr(<<>>)>>) }

\* lines a peer may write without writeMessage: blank ones, with either line
\* ending, and one that is not JSON
BlankLines == { <<"NL">>, <<"CR", "NL">> }
BadLines == { <<"QT", "n", "NL">> }

\* JSON.stringify of a string: quotes, and the escapes of ", \ and the
\* control characters
EscapeChar(c) ==
    CASE c = "QT" -> <<"BS", "QT">>
      [] c = "BS" -> <<"BS", "BS">>
      [] c = "NL" -> <<"BS", "n">>
      [] c = "CR" -> <<"BS", "r">>
      [] OTHER    -> <<c>>

RECURSIVE Escape(_)
Escape(s) == IF s = <<>> THEN <<>> ELSE EscapeChar(Head(s)) \o Escape(Tail(s))

RECURSIVE JSONstringify(_), StringifyElems(_)
JSONstringify(v) ==
    CASE v.t = "null" -> <<"n", "u", "l", "l">>
      [] v.t = "str"  -> <<"QT">> \o Escape(v.s) \o <<"QT">>
      [] v.t = "arr"  -> <<"[">> \o StringifyElems(v.a) \o <<"]">>

StringifyElems(a) ==
    IF a = <<>> THEN <<>>
    ELSE IF Len(a) = 1 THEN JSONstringify(a[1])
    ELSE JSONstringify(a[1]) \o <<",">> \o StringifyElems(Tail(a))

\* JSON.parse: [ok, v, next], next the position after the value read
ParseFail == [ok |-> FALSE, v |-> Null, next |-> 0]
ParseOk(v, next) == [ok |-> TRUE, v |-> v, next |-> next]

\* white space between tokens (of the characters of the model, only CR)
RECURSIVE SkipWs(_, _)
SkipWs(w, i) == IF i <= Len(w) /\ w[i] = "CR" THEN SkipWs(w, i + 1) ELSE i

Unescape(c) ==
    CASE c = "QT" -> "QT"
      [] c = "BS" -> "BS"
      [] c = "n"  -> "NL"
      [] c = "r"  -> "CR"
      [] OTHER    -> "invalid"

\* the characters of a string after its opening quote
RECURSIVE ScanString(_, _, _)
ScanString(w, i, acc) ==
    IF i > Len(w) THEN ParseFail
    ELSE IF w[i] = "QT" THEN ParseOk(Str(acc), i + 1)
    ELSE IF w[i] \in {"NL", "CR"} THEN ParseFail
    ELSE IF w[i] = "BS"
         THEN IF i + 1 > Len(w) \/ Unescape(w[i + 1]) = "invalid"
              THEN ParseFail
              ELSE ScanString(w, i + 2, Append(acc, Unescape(w[i + 1])))
    ELSE ScanString(w, i + 1, Append(acc, w[i]))

RECURSIVE ParseValue(_, _), ParseElems(_, _, _)
ParseValue(w, i) ==
    IF i > Len(w) THEN ParseFail
    ELSE IF w[i] = "QT" THEN ScanString(w, i + 1, <<>>)
    ELSE IF w[i] = "["
         THEN LET j == SkipWs(w, i + 1)
              IN  IF j <= Len(w) /\ w[j] = "]"
                  THEN ParseOk(Arr(<<>>), j + 1)
                  ELSE ParseElems(w, j, <<>>)
    ELSE IF i + 3 <= Len(w) /\ SubSeq(w, i, i + 3) = <<"n", "u", "l", "l">>
         THEN ParseOk(Null, i + 4)
    ELSE ParseFail

\* the elements of an array from position i on, acc those read so far
ParseElems(w, i, acc) ==
    LET r == ParseValue(w, i)
    IN  IF ~r.ok THEN ParseFail
        ELSE LET j == SkipWs(w, r.next)
             IN  IF j > Len(w) THEN ParseFail
                 ELSE IF w[j] = "]" THEN ParseOk(Arr(Append(acc, r.v)), j + 1)
                 ELSE IF w[j] = ","
                      THEN ParseElems(w, SkipWs(w, j + 1), Append(acc, r.v))
                 ELSE ParseFail

\* JSON.parse(text): one value and nothing but white space around it
JSONparse(w) ==
    LET r == ParseValue(w, SkipWs(w, 1))
    IN  IF r.ok /\ SkipWs(w, r.next) = Len(w) + 1 THEN r ELSE ParseFail

\* String.prototype.split(/\r?\n/): the pieces between the line ends, the
\* last being what follows the last line end
RECURSIVE SplitFrom(_, _, _, _)
SplitFrom(w, i, cur, acc) ==
    IF i > Len(w) THEN Append(acc, cur)
    ELSE IF w[i] = "NL"
         THEN LET piece == IF cur # <<>> /\ cur[Len(cur)] = "CR"
                           THEN SubSeq(cur, 1, Len(cur) - 1)
                           ELSE cur
              IN  SplitFrom(w, i + 1, <<>>, Append(acc, piece))
    ELSE SplitFrom(w, i + 1, Append(cur, w[i]), acc)

SplitLines(w) == SplitFrom(w, 1, <<>>, <<>>)

cdInit ==
    /\ lines = <<>>
    /\ wire = <<>>
    /\ soFar = <<>>
    /\ handled = <<>>
    /\ cdFailures = <<>>
    /\ cdEnded = FALSE

\* writeMessage as it would be without the '\n' appended
writeMessage_noNewline(msg) ==
    /\ ~cdEnded
    /\ Len(lines) < MaxLines
    /\ wire' = wire \o JSONstringify(msg)
    /\ lines' = Append(lines, [kind |-> "msg", v |-> msg])
    /\ UNCHANGED <<soFar, handled, cdFailures, cdEnded>>
    /\ UNCHANGED notCd

\* writeMessage(socket, msg), lines 181-183
writeMessage(msg) ==
    /\ ~cdEnded
    /\ Len(lines) < MaxLines
    /\ wire' = wire \o JSONstringify(msg) \o <<"NL">>
    /\ lines' = Append(lines, [kind |-> "msg", v |-> msg])
    /\ UNCHANGED <<soFar, handled, cdFailures, cdEnded>>
    /\ UNCHANGED notCd

\* The peer writes a line of its own.
WriteRaw(text) ==
    /\ ~cdEnded
    /\ Len(lines) < MaxLines
    /\ wire' = wire \o text
    /\ lines' = Append(lines, [kind |-> IF text \in BlankLines THEN "blank" ELSE "bad",
                               v |-> Null])
    /\ UNCHANGED <<soFar, handled, cdFailures, cdEnded>>
    /\ UNCHANGED notCd

\* The 'data' listener of readMessages, lines 190-194, called with the pieces
\* the split stream emits for one chunk.  JSON.parse throws out of the
\* listener and out of the loop of the split stream that emits the pieces:
\* the pieces after a malformed one are not emitted.
RECURSIVE onData(_, _)
onData(pieces, acc) ==
    IF pieces = <<>> THEN [handled |-> acc, failures |-> <<>>]
    ELSE IF Head(pieces) = <<>> THEN onData(Tail(pieces), acc)
    ELSE LET r == JSONparse(Head(pieces))
         IN  IF r.ok
             THEN onData(Tail(pieces), Append(acc, r.v))
             ELSE [handled |-> acc,
                   failures |-> <<[line |-> Head(pieces), to |-> "uncaughtException"]>>]

\* The first k characters in flight arrive as one chunk: the split stream
\* splits what it kept of the last chunk followed by this one, keeps the
\* last piece and emits the others.
Arrive(k) ==
    /\ k \in 1..Len(wire)
    /\ LET pieces == SplitLines(soFar \o SubSeq(wire, 1, k))
           out == onData(SubSeq(pieces, 1, Len(pieces) - 1), handled)
       IN  /\ soFar' = pieces[Len(pieces)]
           /\ handled' = out.handled
           /\ cdFailures' = cdFailures \o out.failures
    /\ wire' = SubSeq(wire, k + 1, Len(wire))
    /\ UNCHANGED <<lines, cdEnded>>
    /\ UNCHANGED notCd

\* The socket ends after its last chunk: the split stream emits what it kept.
StreamEnd ==
    /\ ~cdEnded
    /\ wire = <<>>
    /\ cdEnded' = TRUE
    /\ LET out == onData(<<soFar>>, handled)
       IN  /\ handled' = out.handled
           /\ cdFailures' = cdFailures \o out.failures
    /\ soFar' = <<>>
    /\ UNCHANGED <<lines, wire>>
    /\ UNCHANGED notCd

cdNext ==
    \/ \E msg \in SampleValues : writeMessage(msg)
    \/ \E text \in BlankLines \cup BadLines : WriteRaw(text)
    \/ \E k \in 1..Len(wire) : Arrive(k)
    \/ StreamEnd

(***************************************************************************)
(* createWorkerProxy (src/unnamed/part_000)                                *)
(*                                                                         *)
(* The worker at the local end writes lines, each the JSON of one message  *)
(* followed by a line feed (the last one possibly without it); they arrive *)
(* cut into chunks.  The remote peer may send data and end its side.       *)
(***************************************************************************)

\* convertPath(path, srcPrefix, dstPrefix), src/unnamed/part_001
convertPath(path, srcPrefix, dstPrefix) ==
    IF Len(path) >= Len(srcPrefix) /\ SubSeq(path, 1, Len(srcPrefix)) = srcPrefix
    THEN dstPrefix \o SubSeq(path, Len(srcPrefix) + 1, Len(path))
    ELSE path

\* The transform handed to createWorkerProxy: a caller's function; here one
\* that converts the path a string message holds.
LocalPrefix == <<"n">>
RemotePrefix == <<"NL", "n">>
transform(msg) ==
    IF msg.t = "str" THEN Str(convertPath(msg.s, LocalPrefix, RemotePrefix)) ELSE msg

\* the messages the worker writes
ProxyMessages == { Null, Str(<<"n", "QT">>) }

\* a socket nobody has ended: endedByProxy is end() called by the bridge,
\* endedByPeer the FIN of the other end received, endEmitted the 'end'
\* event emitted (a socket then ends its own side, allowHalfOpen being off)
OpenSock == [endedByProxy |-> FALSE, endedByPeer |-> FALSE, endEmitted |-> FALSE]

pxInit ==
    /\ pxPhase = "idle"
    /\ pxPromise = Pending
    /\ remoteState = "none"
    /\ remoteSocket = OpenSock
    /\ proxy = "none"
    /\ localSocket = 0
    /\ localSock = OpenSock
    /\ pxConnCalls = <<>>
    /\ pxClient = [c \in LocalPeers |-> "idle"]
    /\ pxSent = <<>>
    /\ pxWire = <<>>
    /\ pxLast = <<>>
    /\ pxParsed = <<>>
    /\ remoteOut = <<>>
    /\ pxUncaught = {}
    /\ remoteIn = 0
    /\ localOut = <<>>
    /\ nDispose = 0
    /\ lateWrites = <<>>

\* createWorkerProxy(...) up to its first await: createClientConnection
\* creates the remote socket.
createWorkerProxy ==
    /\ pxPhase = "idle"
    /\ pxPhase' = "awaitRemote"
    /\ remoteState' = "connecting"
    /\ UNCHANGED <<pxPromise, remoteSocket, proxy, localSocket, localSock,
                   pxConnCalls, pxClient, pxSent, pxWire, pxLast, pxParsed,
                   remoteOut, pxUncaught, remoteIn, localOut, nDispose,
                   lateWrites>>
    /\ UNCHANGED notPx

\* createClientConnection.onConnect, then line 16: createServerAndListen
\* creates the server and calls listen().
pxOnConnect ==
    /\ pxPhase = "awaitRemote"
    /\ pxPhase' = "awaitListen"
    /\ remoteState' = "open"
    /\ proxy' = "binding"
    /\ UNCHANGED <<pxPromise, remoteSocket, localSocket, localSock, pxConnCalls,
                   pxClient, pxSent, pxWire, pxLast, pxParsed, remoteOut,
                   pxUncaught, remoteIn, localOut, nDispose, lateWrites>>
    /\ UNCHANGED notPx

\* createClientConnection.onError: the await at line 11 throws.
pxOnError ==
    /\ pxPhase = "awaitRemote"
    /\ pxPhase' = "failed"
    /\ remoteState' = "error"
    /\ pxPromise' = Settle(pxPromise, Rejected("connect error"))
    /\ UNCHANGED <<remoteSocket, proxy, localSocket, localSock, pxConnCalls,
                   pxClient, pxSent, pxWire, pxLast, pxParsed, remoteOut,
                   pxUncaught, remoteIn, localOut, nDispose, lateWrites>>
    /\ UNCHANGED notPx

\* createServerAndListen.onListening, then lines 23-52: the 'connection'
\* listener is attached and the handle returned.
pxOnListening ==
    /\ pxPhase = "awaitListen"
    /\ pxPhase' = "open"
    /\ proxy' = "listening"
    /\ pxPromise' = Settle(pxPromise, Resolved("handle"))
    /\ UNCHANGED <<remoteState, remoteSocket, localSocket, localSock,
                   pxConnCalls, pxClient, pxSent, pxWire, pxLast, pxParsed,
                   remoteOut, pxUncaught, remoteIn, localOut, nDispose,
                   lateWrites>>
    /\ UNCHANGED notPx

\* the catch of lines 18-21 without line 19
pxOnListenError_leavesRemote ==
    /\ pxPhase = "awaitListen"
    /\ pxPhase' = "failed"
    /\ proxy' = "error"
    /\ pxPromise' = Settle(pxPromise, Rejected("listen error"))
    /\ UNCHANGED <<remoteState, remoteSocket, localSocket, localSock,
                   pxConnCalls, pxClient, pxSent, pxWire, pxLast, pxParsed,
                   remoteOut, pxUncaught, remoteIn, localOut, nDispose,
                   lateWrites>>
    /\ UNCHANGED notPx

\* createServerAndListen.onError, then the catch of lines 18-21.
pxOnListenError ==
    /\ pxPhase = "awaitListen"
    /\ pxPhase' = "failed"
    /\ proxy' = "error"
    /\ remoteSocket' = [remoteSocket EXCEPT !.endedByProxy = TRUE]
    /\ pxPromise' = Settle(pxPromise, Rejected("listen error"))
    /\ UNCHANGED <<remoteState, localSocket, localSock, pxConnCalls, pxClient,
                   pxSent, pxWire, pxLast, pxParsed, remoteOut, pxUncaught,
                   remoteIn, localOut, nDispose, lateWrites>>
    /\ UNCHANGED notPx

\* A local peer starts connecting to localPort.
LocalConnect(c) ==
    /\ pxPhase # "idle"
    /\ pxClient[c] = "idle"
    /\ pxClient' = [pxClient EXCEPT ![c] = "connecting"]
    /\ UNCHANGED <<pxPhase, pxPromise, remoteState, remoteSocket, proxy,
                   localSocket, localSock, pxConnCalls, pxSent, pxWire, pxLast,
                   pxParsed, remoteOut, pxUncaught, remoteIn, localOut,
                   nDispose, lateWrites>>
    /\ UNCHANGED notPx

\* the 'connection' listener without line 29
pxOnConnection_keepsListening(c) ==
    /\ pxClient[c] = "connecting"
    /\ proxy = "listening"
    /\ pxPhase = "open"
    /\ localSocket' = c
    /\ localSock' = OpenSock
    /\ pxConnCalls' = Append(pxConnCalls, c)
    /\ pxClient' = [pxClient EXCEPT ![c] = "accepted"]
    /\ UNCHANGED <<pxPhase, pxPromise, remoteState, remoteSocket, proxy, pxSent,
                   pxWire, pxLast, pxParsed, remoteOut, pxUncaught, remoteIn,
                   localOut, nDispose, lateWrites>>
    /\ UNCHANGED notPx

\* The 'connection' listener, lines 24-41: the server is closed, the socket
\* piped into split2 and the two 'end' listeners attached.
pxOnConnection(c) ==
    /\ pxClient[c] = "connecting"
    /\ proxy = "listening"
    /\ pxPhase = "open"
    /\ localSocket' = c
    /\ localSock' = OpenSock
    /\ proxy' = "closed"
    /\ pxConnCalls' = Append(pxConnCalls, c)
    /\ pxClient' = [pxClient EXCEPT ![c] = "accepted"]
    /\ UNCHANGED <<pxPhase, pxPromise, remoteState, remoteSocket, pxSent, pxWire,
                   pxLast, pxParsed, remoteOut, pxUncaught, remoteIn, localOut,
                   nDispose, lateWrites>>
    /\ UNCHANGED notPx

\* Nothing listens on localPort: the local peer is refused.
LocalRefused(c) ==
    /\ pxClient[c] = "connecting"
    /\ proxy # "listening"
    /\ pxClient' = [pxClient EXCEPT ![c] = "refused"]
    /\ UNCHANGED <<pxPhase, pxPromise, remoteState, remoteSocket, proxy,
                   localSocket, localSock, pxConnCalls, pxSent, pxWire, pxLast,
                   pxParsed, remoteOut, pxUncaught, remoteIn, localOut,
                   nDispose, lateWrites>>
    /\ UNCHANGED notPx

\* what the worker has written does not end with a line feed
Unterminated ==
    IF pxWire # <<>> THEN pxWire[Len(pxWire)] # "NL" ELSE pxLast # <<>>

\* The worker writes a message on its connection: its JSON and a line feed,
\* or, as the last thing it writes, its JSON alone.
LocalWrite(msg, whole) ==
    /\ localSocket # 0
    /\ ~localSock.endedByPeer
    /\ ~Unterminated
    /\ Len(pxSent) < MaxProxyLines
    /\ pxSent' = Append(pxSent, msg)
    /\ pxWire' = pxWire \o JSONstringify(msg) \o (IF whole THEN <<"NL">> ELSE <<>>)
    /\ UNCHANGED <<pxPhase, pxPromise, remoteState, remoteSocket, proxy,
                   localSocket, localSock, pxConnCalls, pxClient, pxLast,
                   pxParsed, remoteOut, pxUncaught, remoteIn, localOut,
                   nDispose, lateWrites>>
    /\ UNCHANGED notPx

\* remoteSocket.write(data), line 32: on a socket whose writable side has
\* ended (by end() of the bridge, or by the socket itself on its 'end') the
\* data is dropped and the socket emits an 'error' nobody listens for.
RemoteWritable == ~remoteSocket.endedByProxy /\ ~remoteSocket.endEmitted

\* The 'data' listener of line 31-33 called with each line split2 emits for
\* one chunk: [parsed, out, uncaught, late].  A line that is not JSON makes
\* JSON.parse throw.
RECURSIVE pxOnData(_, _)
pxOnData(list, acc) ==
    IF list = <<>> THEN acc
    ELSE LET r == JSONparse(Head(list))
             data == JSONstringify(transform(r.v))
         IN  IF ~r.ok
             THEN [acc EXCEPT !.uncaught = @ \cup {"SyntaxError"}]
             ELSE pxOnData(Tail(list),
                    [parsed |-> Append(acc.parsed, r.v),
                     out |-> IF RemoteWritable THEN acc.out \o data ELSE acc.out,
                     uncaught |-> IF RemoteWritable THEN acc.uncaught
                                  ELSE acc.uncaught \cup {"write after end"},
                     late |-> IF remoteSocket.endedByProxy
                              THEN Append(acc.late, data) ELSE acc.late])

\* The first k characters in flight arrive as one chunk on the local socket:
\* split2 splits what it kept followed by the chunk, keeps the last piece
\* and emits the others.
LocalArrive(k) ==
    /\ localSocket # 0
    /\ k \in 1..Len(pxWire)
    /\ LET list == SplitLines(pxLast \o SubSeq(pxWire, 1, k))
           res == pxOnData(SubSeq(list, 1, Len(list) - 1),
                           [parsed |-> pxParsed, out |-> remoteOut,
                            uncaught |-> pxUncaught, late |-> lateWrites])
       IN  /\ pxLast' = list[Len(list)]
           /\ pxParsed' = res.parsed
           /\ remoteOut' = res.out
           /\ pxUncaught' = res.uncaught
           /\ lateWrites' = res.late
    /\ pxWire' = SubSeq(pxWire, k + 1, Len(pxWire))
    /\ UNCHANGED <<pxPhase, pxPromise, remoteState, remoteSocket, proxy,
                   localSocket, localSock, pxConnCalls, pxClient, pxSent,
                   remoteIn, localOut, nDispose>>
    /\ UNCHANGED notPx

\* The worker ends its connection.
LocalEnd ==
    /\ localSocket # 0
    /\ ~localSock.endedByPeer
    /\ localSock' = [localSock EXCEPT !.endedByPeer = TRUE]
    /\ UNCHANGED <<pxPhase, pxPromise, remoteState, remoteSocket, proxy,
                   localSocket, pxConnCalls, pxClient, pxSent, pxWire, pxLast,
                   pxParsed, remoteOut, pxUncaught, remoteIn, localOut,
                   nDispose, lateWrites>>
    /\ UNCHANGED notPx

\* 'end' of the local socket, emitted once every chunk has been read.  Its
\* listeners run in the order attached: the one of pipe() (line 31) ends
\* split2, which flushes the unfinished line it kept to the 'data' listener;
\* then the one of lines 35-37 ends the remote socket.  When the 'data'
\* listener throws during the flush, whether the listener of lines 35-37
\* still runs depends on the split2 and Node versions (split2 catches what
\* its push throws and fails the stream): endRuns.
pxOnLocalEnd(endRuns) ==
    /\ localSocket # 0
    /\ localSock.endedByPeer
    /\ ~localSock.endEmitted
    /\ pxWire = <<>>
    /\ LET acc == [parsed |-> pxParsed, out |-> remoteOut,
                   uncaught |-> pxUncaught, late |-> lateWrites]
           res == IF pxLast = <<>> THEN acc ELSE pxOnData(<<pxLast>>, acc)
           threw == pxLast # <<>> /\ ~JSONparse(pxLast).ok
       IN  /\ pxParsed' = res.parsed
           /\ remoteOut' = res.out
           /\ pxUncaught' = res.uncaught
           /\ lateWrites' = res.late
           /\ (~threw => endRuns)
           /\ remoteSocket' = IF endRuns
                              THEN [remoteSocket EXCEPT !.endedByProxy = TRUE]
                              ELSE remoteSocket
    /\ pxLast' = <<>>
    /\ localSock' = [localSock EXCEPT !.endEmitted = TRUE]
    /\ UNCHANGED <<pxPhase, pxPromise, remoteState, proxy, localSocket,
                   pxConnCalls, pxClient, pxSent, pxWire, remoteIn, localOut,
                   nDispose>>
    /\ UNCHANGED notPx

\* data read from the remote socket is written to the local one
RemoteData_relayed ==
    /\ remoteState = "open"
    /\ ~remoteSocket.endedByPeer
    /\ remoteIn < MaxRemoteData
    /\ remoteIn' = remoteIn + 1
    /\ localOut' = IF localSocket # 0 THEN Append(localOut, "data") ELSE localOut
    /\ UNCHANGED <<pxPhase, pxPromise, remoteState, remoteSocket, proxy,
                   localSocket, localSock, pxConnCalls, pxClient, pxSent,
                   pxWire, pxLast, pxParsed, remoteOut, pxUncaught, nDispose,
                   lateWrites>>
    /\ UNCHANGED notPx

\* The remote peer sends data.  The bridge never reads the remote socket (no
\* 'data' or 'readable' listener, no pipe: lines 11-52): the data stays in
\* the buffer of the socket.
RemoteData ==
    /\ remoteState = "open"
    /\ ~remoteSocket.endedByPeer
    /\ remoteIn < MaxRemoteData
    /\ remoteIn' = remoteIn + 1
    /\ UNCHANGED <<pxPhase, pxPromise, remoteState, remoteSocket, proxy,
                   localSocket, localSock, pxConnCalls, pxClient, pxSent,
                   pxWire, pxLast, pxParsed, remoteOut, pxUncaught, localOut,
                   nDispose, lateWrites>>
    /\ UNCHANGED notPx

\* The remote peer ends the remote connection.
RemoteEnd ==
    /\ remoteState = "open"
    /\ ~remoteSocket.endedByPeer
    /\ remoteSocket' = [remoteSocket EXCEPT !.endedByPeer = TRUE]
    /\ UNCHANGED <<pxPhase, pxPromise, remoteState, proxy, localSocket,
                   localSock, pxConnCalls, pxClient, pxSent, pxWire, pxLast,
                   pxParsed, remoteOut, pxUncaught, remoteIn, localOut,
                   nDispose, lateWrites>>
    /\ UNCHANGED notPx

\* 'end' of the remote socket: a readable stream emits it once its buffer
\* has been read to the end, so never while data nobody reads is in it.  The
\* listener of lines 38-40 runs if a local connection has attached it.
pxOnRemoteEnd ==
    /\ remoteSocket.endedByPeer
    /\ ~remoteSocket.endEmitted
    /\ remoteIn = 0
    /\ remoteSocket' = [remoteSocket EXCEPT !.endEmitted = TRUE]
    /\ localSock' = IF localSocket # 0
                    THEN [localSock EXCEPT !.endedByProxy = TRUE]
                    ELSE localSock
    /\ UNCHANGED <<pxPhase, pxPromise, remoteState, proxy, localSocket,
                   pxConnCalls, pxClient, pxSent, pxWire, pxLast, pxParsed,
                   remoteOut, pxUncaught, remoteIn, localOut, nDispose,
                   lateWrites>>
    /\ UNCHANGED notPx

\* dispose() without lines 48-50
dispose_leavesListener ==
    /\ pxPhase = "open"
    /\ nDispose < MaxDispose
    /\ nDispose' = nDispose + 1
    /\ remoteSocket' = [remoteSocket EXCEPT !.endedByProxy = TRUE]
    /\ localSock' = IF localSocket # 0
                    THEN [localSock EXCEPT !.endedByProxy = TRUE]
                    ELSE localSock
    /\ UNCHANGED <<pxPhase, pxPromise, remoteState, proxy, localSocket,
                   pxConnCalls, pxClient, pxSent, pxWire, pxLast, pxParsed,
                   remoteOut, pxUncaught, remoteIn, localOut, lateWrites>>
    /\ UNCHANGED notPx

\* dispose(), lines 44-51
dispose ==
    /\ pxPhase = "open"
    /\ nDispose < MaxDispose
    /\ nDispose' = nDispose + 1
    /\ remoteSocket' = [remoteSocket EXCEPT !.endedByProxy = TRUE]
    /\ IF localSocket # 0
       THEN /\ localSock' = [localSock EXCEPT !.endedByProxy = TRUE]
            /\ UNCHANGED proxy
       ELSE /\ proxy' = IF proxy = "listening" THEN "closed" ELSE proxy
            /\ UNCHANGED localSock
    /\ UNCHANGED <<pxPhase, pxPromise, remoteState, localSocket, pxConnCalls,
                   pxClient, pxSent, pxWire, pxLast, pxParsed, remoteOut,
                   pxUncaught, remoteIn, localOut, lateWrites>>
    /\ UNCHANGED notPx

\* the steps of the event loop of the bridge: events delivered to the
\* callbacks of createWorkerProxy
pxProgress ==
    \/ pxOnListening
    \/ \E c \in LocalPeers : pxOnConnection(c)
    \/ \E c \in LocalPeers : LocalRefused(c)
    \/ \E k \in 1..Len(pxWire) : LocalArrive(k)
    \/ \E endRuns \in BOOLEAN : pxOnLocalEnd(endRuns)
    \/ pxOnRemoteEnd

pxNext ==
    \/ createWorkerProxy
    \/ pxOnConnect
    \/ pxOnError
    \/ pxOnListening
    \/ pxOnListenError
    \/ \E c \in LocalPeers : LocalConnect(c)
    \/ \E c \in LocalPeers : pxOnConnection(c)
    \/ \E c \in LocalPeers : LocalRefused(c)
    \/ \E msg \in ProxyMessages, whole \in BOOLEAN : LocalWrite(msg, whole)
    \/ \E k \in 1..Len(pxWire) : LocalArrive(k)
    \/ LocalEnd
    \/ \E endRuns \in BOOLEAN : pxOnLocalEnd(endRuns)
    \/ RemoteData
    \/ RemoteEnd
    \/ pxOnRemoteEnd
    \/ dispose

(***************************************************************************)
(* runWorker (src/unnamed/part_000 99-124)                                 *)
(***************************************************************************)
rwInit ==
    /\ rwPhase = "idle"
    /\ finished = FALSE
    /\ rwPromise = Pending
    /\ childEvents = <<>>
    /\ rwResolveCalls = 0
    /\ rwResolvedAt = 0

\* runWorker(workerPath, workerArgs): the executor forks the child and
\* attaches the two listeners, lines 100-123.
runWorker ==
    /\ rwPhase = "idle"
    /\ rwPhase' = "running"
    /\ finished' = FALSE
    /\ UNCHANGED <<rwPromise, childEvents, rwResolveCalls, rwResolvedAt>>
    /\ UNCHANGED notRw

\* the listener of 'exit' without the test of `finished`
onChildExit_unguarded ==
    /\ rwPhase = "running"
    /\ Len(childEvents) < MaxChildEvents
    /\ childEvents' = Append(childEvents, "exit")
    /\ rwPromise' = Settle(rwPromise, Resolved("undefined"))
    /\ rwResolveCalls' = rwResolveCalls + 1
    /\ rwResolvedAt' = IF rwResolveCalls = 0 THEN Len(childEvents) + 1 ELSE rwResolvedAt
    /\ finished' = TRUE
    /\ UNCHANGED rwPhase
    /\ UNCHANGED notRw

\* childProc.on('exit', ...), lines 110-115
onChildExit ==
    /\ rwPhase = "running"
    /\ Len(childEvents) < MaxChildEvents
    /\ childEvents' = Append(childEvents, "exit")
    /\ IF ~finished
       THEN /\ rwPromise' = Settle(rwPromise, Resolved("undefined"))
            /\ rwResolveCalls' = rwResolveCalls + 1
            /\ rwResolvedAt' = Len(childEvents) + 1
            /\ finished' = TRUE
       ELSE UNCHANGED <<rwPromise, rwResolveCalls, rwResolvedAt, finished>>
    /\ UNCHANGED rwPhase
    /\ UNCHANGED notRw

\* childProc.on('error', ...), lines 117-122
onChildError ==
    /\ rwPhase = "running"
    /\ Len(childEvents) < MaxChildEvents
    /\ childEvents' = Append(childEvents, "error")
    /\ IF ~finished
       THEN /\ rwPromise' = Settle(rwPromise, Resolved("undefined"))
            /\ rwResolveCalls' = rwResolveCalls + 1
            /\ rwResolvedAt' = Len(childEvents) + 1
            /\ finished' = TRUE
       ELSE UNCHANGED <<rwPromise, rwResolveCalls, rwResolvedAt, finished>>
    /\ UNCHANGED rwPhase
    /\ UNCHANGED notRw

rwNext ==
    \/ runWorker
    \/ onChildExit
    \/ onChildError

(***************************************************************************)
(* localPathConverter / remotePathConverter (src/src/convert.ts 38-67)     *)
(*                                                                         *)
(* A path is a sequence of characters.                                     *)
(***************************************************************************)
PathChars == {"a", "b"}

Paths == UNION { [1..n -> PathChars] : n \in 0..MaxPathLen }

\* the prefixes of the mappings: the empty one, and one that begins with
\* another
PathPrefixes == { <<>>, <<"a">>, <<"a", "b">> }

\* interface PathMapping
PathMapping == [local : PathPrefixes, remote : PathPrefixes]

MappingLists == UNION { [1..n -> PathMapping] : n \in 0..MaxMappings }

\* path.startsWith(prefix)
startsWith(path, prefix) ==
    Len(path) >= Len(prefix) /\ SubSeq(path, 1, Len(prefix)) = prefix

\* path.substr(n)
substr(path, n) == SubSeq(path, n + 1, Len(path))

\* the loop of localPathConverter with no return at the first match: the
\* last mapping that matches decides
RECURSIVE localPathConverter_lastWins(_, _)
localPathConverter_lastWins(mappings, path) ==
    IF mappings = <<>> THEN path
    ELSE LET mapping == mappings[Len(mappings)]
         IN  IF startsWith(path, mapping.local)
             THEN mapping.remote \o substr(path, Len(mapping.local))
             ELSE localPathConverter_lastWins(SubSeq(mappings, 1, Len(mappings) - 1), path)

\* localPathConverter(mappings)(path), lines 43-54
RECURSIVE localPathConverter(_, _)
localPathConverter(mappings, path) ==
    IF mappings = <<>> THEN path
    ELSE LET mapping == Head(mappings)
         IN  IF startsWith(path, mapping.local)
             THEN mapping.remote \o substr(path, Len(mapping.local))
             ELSE localPathConverter(Tail(mappings), path)

\* remotePathConverter(mappings)(path), lines 56-67
RECURSIVE remotePathConverter(_, _)
remotePathConverter(mappings, path) ==
    IF mappings = <<>> THEN path
    ELSE LET mapping == Head(mappings)
         IN  IF startsWith(path, mapping.remote)
             THEN mapping.local \o substr(path, Len(mapping.remote))
             ELSE remotePathConverter(Tail(mappings), path)

pcInit ==
    /\ pcPhase = "idle"
    /\ pcConverter = "none"
    /\ pcMappings = <<>>
    /\ pcPath = <<>>
    /\ pcResult = <<>>

\* const convert = localPathConverter(mappings); convert(path)
callLocalPathConverter(mappings, path) ==
    /\ pcPhase = "idle"
    /\ pcPhase' = "called"
    /\ pcConverter' = "local"
    /\ pcMappings' = mappings
    /\ pcPath' = path
    /\ pcResult' = localPathConverter(mappings, path)
    /\ UNCHANGED notPc

\* const convert = remotePathConverter(mappings); convert(path)
callRemotePathConverter(mappings, path) ==
    /\ pcPhase = "idle"
    /\ pcPhase' = "called"
    /\ pcConverter' = "remote"
    /\ pcMappings' = mappings
    /\ pcPath' = path
    /\ pcResult' = remotePathConverter(mappings, path)
    /\ UNCHANGED notPc

pcNext ==
    \/ \E mappings \in MappingLists, path \in Paths : callLocalPathConverter(mappings, path)
    \/ \E mappings \in MappingLists, path \in Paths : callRemotePathConverter(mappings, path)

(***************************************************************************)
(* Specifications                                                          *)
(***************************************************************************)
Init == rcInit /\ ccInit /\ cdInit /\ pxInit /\ rwInit /\ pcInit

Next == rcNext \/ ccNext \/ cdNext \/ pxNext \/ rwNext \/ pcNext

Spec == Init /\ [][Next]_vars

\* One specification for each component, of its steps alone: the components
\* share no variable.
AcceptorSpec == Init /\ [][rcNext]_vars

ConnectorSpec == Init /\ [][ccNext]_vars

CodecSpec == Init /\ [][cdNext]_vars

ProxySpec == Init /\ [][pxNext]_vars

RunWorkerSpec == Init /\ [][rwNext]_vars

PathConverterSpec == Init /\ [][pcNext]_vars

\* createConnection under an event loop that lets time pass, runs the timers
\* that are due and delivers the events of the socket
FairConnectorSpec == ConnectorSpec /\ WF_vars(ccProgress)

\* createWorkerProxy under an event loop that delivers the events that are due
FairProxySpec == ProxySpec /\ WF_vars(pxProgress)

(***************************************************************************)
(* Claims about createConnection                                           *)
(***************************************************************************)

\* C4: with rejectClosedSocket > 0, a socket the call resolves with was not
\* destroyed when onConnect looked at it after the grace window, and was not
\* closed by the peer during that window; in single-attempt and in retry
\* mode alike.
C4_NoClosedSocketReturned ==
    /\ []((rejectClosedSocket > 0 /\ ccPromise.state = "resolved")
            => (sockState = "returned" /\ ~closedInGrace))
    /\ [][(rejectClosedSocket > 0 /\ sockState' = "returned" /\ sockState # "returned")
            => (sockState = "grace" /\ now >= delayDue /\ ~sockDestroyed)]_vars

\* in retry mode a first socket was closed during its grace window and
\* rejected, and the call resolved with a later one
C4_Witness ==
    /\ rejectClosedSocket > 0
    /\ ccTimeout > 0
    /\ lastErr = "closed immediately"
    /\ ccPromise.state = "resolved"

\* The target of C5: it refuses until tListen, a time before the deadline of
\* the call (made at time 0), and from then on accepts every connection and
\* keeps it open.
ListensInTime ==
    /\ ccPhase # "idle"
    /\ ccTimeout > 0
    /\ keepsOpen
    /\ tListen < ccTimeout

\* C5 as stated: against a target that starts listening before the deadline
\* the retry loop never gives up.
C5_NeverGivesUp ==
    ListensInTime => ccPromise.state # "rejected"

\* C5 as amended: against such a target the call eventually settles; it
\* resolves with an open socket unless an attempt begun before tListen has
\* its refusal caught at or after the deadline, and then it fails with that
\* refusal; no failure caught before the deadline makes it give up.
C5_SettlesAndRetriesUntilDeadline ==
    /\ ListensInTime ~> (ccPromise.state # "pending")
    /\ []((ListensInTime /\ ccPromise.state = "resolved") => ~sockDestroyed)
    /\ []((ListensInTime /\ ccPromise.state = "rejected")
            => /\ ccPromise.value = "refused"
               /\ attemptStart < tListen
               /\ lastErrTime >= endTime
               /\ ccSettledAt = lastErrTime)

\* the target started listening after the first refusal and a later attempt
\* was accepted and returned
C5_Witness ==
    /\ ListensInTime
    /\ tListen > 0
    /\ nAttempts >= 2
    /\ lastErr = "refused"
    /\ ccPromise.state = "resolved"

\* C6: against a target that never listens, a call with timeout > 0 fails
\* with reason timeout, not earlier than timeout and not later than
\* timeout + retryInterval after the call (made at time 0).
C6_FailsWithTimeout ==
    (ccTimeout > 0 /\ tListen = Never /\ ccPromise.state = "rejected")
        => /\ ccPromise.value = "timeout"
           /\ ccSettledAt >= ccTimeout
           /\ ccSettledAt <= ccTimeout + retryInterval

\* C7: in retry mode an attempt that fails, with a socket found closed after
\* the grace window as with a refusal, makes retry sleep retryInterval and
\* connect again when the failure is caught before the deadline; the call
\* fails only on a failure caught at or after the deadline, with that error.
C7_ClosedSocketRetried ==
    /\ []((ccTimeout > 0 /\ ccPromise.state = "rejected")
            => /\ lastErrTime >= endTime
               /\ ccSettledAt = lastErrTime
               /\ ccPromise.value = lastErr)
    /\ [][(ccTimeout > 0 /\ sockState # "failed" /\ sockState' = "failed")
            => IF now < endTime
               THEN /\ ccPhase' = "sleep"
                    /\ delayDue' = now + retryInterval
                    /\ ccPromise' = Pending
               ELSE /\ ccPromise' = Rejected(lastErr')
                    /\ sockState = "grace" => lastErr' = "closed immediately"]_vars
    /\ [][(ccPhase = "sleep" /\ ccPhase' # "sleep")
            => /\ now >= delayDue
               /\ ccPhase' = "attempt"
               /\ sockState' = "connecting"
               /\ nAttempts' = nAttempts + 1]_vars

\* a socket was found closed before the deadline, the Connector connected
\* again, and the call failed with a socket found closed after the deadline
C7_Witness ==
    /\ ccTimeout > 0
    /\ rejectClosedSocket > 0
    /\ nAttempts >= 2
    /\ ccPromise = Rejected("closed immediately")

\* a call of createConnection with timeout = 0
BareCall == ccPhase # "idle" /\ ccTimeout = 0

\* C16: a bare attempt makes one connection attempt and never sleeps; its
\* promise, once settled, does not change; 'error' first rejects it with the
\* error of the socket and 'connect' first, when rejectClosedSocket = 0,
\* resolves it with the socket; the listener that runs leaves neither
\* listener attached.
C16_BareAttemptRace ==
    /\ [](BareCall => (nAttempts = 1 /\ ccPhase # "sleep"))
    /\ [][(BareCall /\ ccPromise.state # "pending") => ccPromise' = ccPromise]_vars
    /\ [][(BareCall /\ sockState = "refused" /\ sockState' # "refused")
            => (ccPromise' = Rejected("refused") /\ sockListeners' = {})]_vars
    /\ [][(BareCall /\ sockState = "connected" /\ sockState' # "connected")
            => /\ sockListeners' = {}
               /\ rejectClosedSocket = 0 => ccPromise' = Resolved("socket")]_vars
    /\ []((BareCall /\ ccPromise.state # "pending")
            => (sockListeners = {} /\ ccPhase = "done"))

\* 'connect' came first and resolved the promise; the peer then closed the
\* connection
C16_Witness ==
    /\ BareCall
    /\ rejectClosedSocket = 0
    /\ ccPromise = Resolved("socket")
    /\ sockDestroyed

\* C20: every 'error' event the socket emits between its creation and the
\* settling of the attempt, the grace window after 'connect' included, finds
\* a listener of the Connector attached: none is emitted unhandled.
C20_ErrorAlwaysHandled ==
    ccUncaught = {}

(***************************************************************************)
(* Claims about the codec                                                  *)
(***************************************************************************)
RECURSIVE MessagesOf(_)
MessagesOf(ls) ==
    IF ls = <<>> THEN <<>>
    ELSE IF Head(ls).kind = "msg" THEN <<Head(ls).v>> \o MessagesOf(Tail(ls))
    ELSE MessagesOf(Tail(ls))

IsPrefix(s, t) == Len(s) <= Len(t) /\ s = SubSeq(t, 1, Len(s))

NoBadLine == \A i \in 1..Len(lines) : lines[i].kind # "bad"

\* C8: when only writeMessage and blank lines fill the stream, however it is
\* cut into chunks the handler is called with the messages written, in the
\* order written, once each and with equal values: with a prefix of them at
\* any time and with all of them once every chunk has arrived; blank lines
\* cause no call and no failure.
C8_RoundTrip ==
    NoBadLine =>
        /\ IsPrefix(handled, MessagesOf(lines))
        /\ wire = <<>> => /\ handled = MessagesOf(lines)
                          /\ soFar = <<>>
        /\ cdFailures = <<>>

\* two messages and a blank line were written; the first message has been
\* handled and a chunk has ended inside the line of the second
C8_Witness ==
    /\ NoBadLine
    /\ \E i \in 1..Len(lines) : lines[i].kind = "blank"
    /\ Len(MessagesOf(lines)) = 2
    /\ MessagesOf(lines)[1] # MessagesOf(lines)[2]
    /\ Len(handled) = 1
    /\ soFar # <<>>
    /\ wire # <<>>

\* the messages written before the first malformed line
RECURSIVE BeforeBad(_)
BeforeBad(ls) ==
    IF ls = <<>> \/ Head(ls).kind = "bad" THEN <<>>
    ELSE IF Head(ls).kind = "msg" THEN <<Head(ls).v>> \o BeforeBad(Tail(ls))
    ELSE BeforeBad(Tail(ls))

\* C9: when a line is not valid JSON, the well-formed lines before it have
\* been handled and the failure goes to the party that attached the handler.
C9_ParseFailureSurfaced ==
    \A i \in 1..Len(cdFailures) :
        /\ IsPrefix(BeforeBad(lines), handled)
        /\ cdFailures[i].to = "handler"

(***************************************************************************)
(* Claims about createWorkerProxy                                          *)
(***************************************************************************)
RECURSIVE EncodeAll(_)
EncodeAll(msgs) ==
    IF msgs = <<>> THEN <<>>
    ELSE JSONstringify(transform(Head(msgs))) \o <<"NL">> \o EncodeAll(Tail(msgs))

RECURSIVE TransformAll(_)
TransformAll(msgs) ==
    IF msgs = <<>> THEN <<>> ELSE <<transform(Head(msgs))>> \o TransformAll(Tail(msgs))

\* what readMessages hands to its handler when the text arrives on a socket
\* which then ends
ReadAll(text) == onData(SplitLines(text), <<>>)

\* both legs are open: neither end has ended its connection
BridgeOpen ==
    /\ localSocket # 0
    /\ localSock = OpenSock
    /\ remoteSocket = OpenSock

\* C10: while the bridge is open, what it has written to the remote
\* connection is the codec's encoding of transform(m1), .., transform(mn), the
\* messages that have arrived on the local connection, one line each, in
\* order; read with readMessages it yields these messages.
C10_ForwardsEncoded ==
    BridgeOpen =>
        /\ remoteOut = EncodeAll(pxParsed)
        /\ ReadAll(remoteOut) = [handled |-> TransformAll(pxParsed), failures |-> <<>>]
        /\ (pxWire = <<>> /\ pxLast = <<>>) => pxParsed = pxSent

\* a leg is ended once the bridge has called end() on it or it has ended
\* itself on its 'end' event
RemoteLegEnded == remoteSocket.endedByProxy \/ remoteSocket.endEmitted

LocalLegEnded == localSock.endedByProxy \/ localSock.endEmitted

\* an exception nobody caught: by default the end of the process
ProxyCrashed == pxUncaught # {}

\* C11: half-close propagation in both directions, as long as no exception
\* has ended the process: an ended local connection leads to the remote
\* connection being ended, and a remote connection that its peer ends after
\* createWorkerProxy returned (without having sent anything) leads to the
\* local connection, accepted before or after, being ended.
C11_HalfClosePropagation ==
    /\ (localSocket # 0 /\ localSock.endedByPeer) ~> (RemoteLegEnded \/ ProxyCrashed)
    /\ []((pxPhase = "open" /\ ~remoteSocket.endedByPeer)
            => []((remoteSocket.endedByPeer /\ remoteIn = 0 /\ localSocket # 0)
                    => <>(LocalLegEnded \/ ProxyCrashed)))

\* C12: every call of dispose(), the first and the later ones, throws nothing
\* and returns with the remote connection ended, the local connection ended
\* if one was accepted, and the listener not listening otherwise; when none
\* was accepted before a call of dispose(), none is accepted after it.
C12_DisposeSafe ==
    /\ [][(nDispose' = nDispose + 1)
            => /\ pxUncaught' = pxUncaught
               /\ remoteSocket'.endedByProxy
               /\ localSocket' = localSocket
               /\ localSocket # 0 => localSock'.endedByProxy
               /\ localSocket = 0 => proxy' # "listening"]_vars
    /\ [](nDispose > 0
            => /\ remoteSocket.endedByProxy
               /\ localSocket # 0 => localSock.endedByProxy
               /\ localSocket = 0 => proxy # "listening")
    /\ [][(nDispose > 0 /\ localSocket = 0) => localSocket' = 0]_vars

\* dispose() was called twice with no local connection accepted, and a
\* worker that connected afterwards was refused
C12_Witness ==
    /\ nDispose >= 2
    /\ localSocket = 0
    /\ proxy = "closed"
    /\ \E c \in LocalPeers : pxClient[c] = "refused"

\* C13: the listener is created only once the remote connection is
\* established; a failed remote connect fails the call and no listener is
\* ever created; a failed listen ends the remote connection and fails the
\* call with the listen error; a failed call leaves neither an open remote
\* leg nor a listener.
C13_SetupOrderAndFailure ==
    /\ proxy # "none" => remoteState = "open"
    /\ remoteState = "error" => (pxPromise = Rejected("connect error") /\ proxy = "none")
    /\ proxy = "error" => (pxPromise = Rejected("listen error") /\ remoteSocket.endedByProxy)
    /\ pxPromise.state = "rejected"
         => /\ proxy \in {"none", "error"}
            /\ remoteState = "open" => remoteSocket.endedByProxy
            /\ localSocket = 0
    /\ pxPromise.state = "resolved" => (remoteState = "open" /\ proxy \in {"listening", "closed"})

\* the listener failed to bind after the remote connection was established,
\* and a worker that tried to connect was refused
C13_Witness ==
    /\ proxy = "error"
    /\ remoteState = "open"
    /\ remoteSocket.endedByProxy
    /\ \E c \in LocalPeers : pxClient[c] = "refused"

\* C17: the 'connection' listener runs at most once; the listener is closed
\* from the first local connection on; localSocket, once set, is never set
\* again, and no other stream is piped to the remote connection.
C17_OneLocalConnection ==
    /\ [](Len(pxConnCalls) <= 1)
    /\ [](localSocket # 0 => (proxy = "closed" /\ pxConnCalls = <<localSocket>>))
    /\ [](localSocket = 0 => pxConnCalls = <<>>)
    /\ [][localSocket # 0 => localSocket' = localSocket]_vars
    /\ [](\A c \in LocalPeers : pxClient[c] = "accepted" => localSocket = c)

\* a worker was accepted and has sent a message; another one that tried to
\* connect later was refused
C17_Witness ==
    /\ localSocket # 0
    /\ pxParsed # <<>>
    /\ \E c \in LocalPeers : c # localSocket /\ pxClient[c] = "refused"

\* C18: the bridge writes nothing to the local connection; a chunk or the
\* end arriving on the remote connection changes nothing of what the bridge
\* has parsed or written, and nothing of the local leg but its being ended
\* by the bridge.
C18_OneDirectional ==
    /\ [](localOut = <<>>)
    /\ [][(remoteIn' # remoteIn \/ remoteSocket'.endedByPeer # remoteSocket.endedByPeer
             \/ remoteSocket'.endEmitted # remoteSocket.endEmitted)
            => /\ UNCHANGED <<localOut, pxParsed, remoteOut, pxLast, pxWire,
                              localSocket, pxUncaught, lateWrites>>
               /\ localSock'.endedByPeer = localSock.endedByPeer
               /\ localSock'.endEmitted = localSock.endEmitted]_vars

\* the worker's message has been forwarded and the remote peer has sent data
\* while both legs were open
C18_Witness ==
    /\ localSocket # 0
    /\ remoteOut # <<>>
    /\ remoteIn > 0
    /\ localSock = OpenSock
    /\ remoteSocket = OpenSock

\* C19: remoteSocket.write is never called after the bridge has called
\* remoteSocket.end().
C19_NoWriteAfterEnd ==
    lateWrites = <<>>

(***************************************************************************)
(* Claims about runWorker                                                  *)
(***************************************************************************)

\* C14: whichever 'exit' and 'error' events the child emits, in whatever
\* order and however often, resolve() is called once, at the first of them;
\* the promise is pending before it, resolved from it on, and never rejected.
C14_ResolvesOnceAtFirstEvent ==
    /\ rwPromise.state # "rejected"
    /\ rwResolveCalls <= 1
    /\ childEvents = <<>> => (rwPromise = Pending /\ rwResolveCalls = 0)
    /\ childEvents # <<>>
         => /\ rwPromise = Resolved("undefined")
            /\ rwResolveCalls = 1
            /\ rwResolvedAt = 1
            /\ finished

\* 'error' came first, then 'exit', then both again
C14_Witness ==
    /\ Len(childEvents) >= 4
    /\ childEvents[1] = "error"
    /\ childEvents[2] = "exit"
    /\ childEvents[3] = "exit"
    /\ childEvents[4] = "error"

(***************************************************************************)
(* Claims about the path converters                                        *)
(***************************************************************************)

\* the source and the target prefix of a mapping for the converter called
SourcePrefix(mapping) == IF pcConverter = "local" THEN mapping.local ELSE mapping.remote

TargetPrefix(mapping) == IF pcConverter = "local" THEN mapping.remote ELSE mapping.local

\* the places in the list of the mappings whose source prefix begins the path
Matching == { i \in 1..Len(pcMappings) : startsWith(pcPath, SourcePrefix(pcMappings[i])) }

\* C15: the result is the path with the source prefix of the first mapping
\* whose source prefix begins it replaced by the target prefix of that
\* mapping, and the path itself when no mapping matches.
C15_FirstMatchWins ==
    pcPhase = "called" =>
        IF Matching = {} THEN pcResult = pcPath
        ELSE LET first == CHOOSE i \in Matching : \A j \in Matching : i <= j
                 mapping == pcMappings[first]
             IN  /\ Len(pcResult) = Len(TargetPrefix(mapping)) + Len(pcPath)
                                      - Len(SourcePrefix(mapping))
                 /\ SubSeq(pcResult, 1, Len(TargetPrefix(mapping))) = TargetPrefix(mapping)
                 /\ \A k \in 1..(Len(pcPath) - Len(SourcePrefix(mapping))) :
                      pcResult[Len(TargetPrefix(mapping)) + k]
                        = pcPath[Len(SourcePrefix(mapping)) + k]

\* two mappings match the path and would give different results; the first
\* one was applied
C15_Witness ==
    /\ pcPhase = "called"
    /\ pcConverter = "local"
    /\ Len(pcMappings) = 2
    /\ Matching = {1, 2}
    /\ pcMappings[1].local = <<"a">>
    /\ pcMappings[2].local = <<"a", "b">>
    /\ pcMappings[1].remote # pcMappings[2].remote
    /\ pcPath = <<"a", "b">>
    /\ pcResult = pcMappings[1].remote \o <<"b">>

=============================================================================
